---- MODULE Spec2Model ----
(***************************************************************************)
(* Tic-Tac-Toe (t3.py): the game class with its board queries (winner,     *)
(* check_for_wins, check_for_twos, check_move), the three player classes   *)
(* (human, monkey, computer) and the play() loop.                          *)
(*                                                                         *)
(* Python values: a board cell is "X", "O" or None (the string "None"      *)
(* here); an optional cell index (the result of check_for_wins or of a     *)
(* move) is PyInt(n) or NoneVal; the empty string "" is play()'s and       *)
(* winner()'s no-winner value.                                             *)
(***************************************************************************)
EXTENDS Integers, Sequences, FiniteSets, TLC

VARIABLES
    board,        \* game.board: the 9 cells
    moves,        \* game.moves
    players,      \* game.players, sorted so that X comes first
    cmatch,       \* game.cmatch: TRUE iff no human takes part
    vmark,        \* game.vmark
    pc,           \* position inside play(), or "call"/"return" for a direct query
    m,            \* play()'s local m: the proposed move
    play_winner,  \* play()'s local winner
    report,       \* the lines play() prints after its loop
    q             \* the direct query made on the game object and its result

vars == <<board, moves, players, cmatch, vmark, pc, m, play_winner, report, q>>

-----------------------------------------------------------------------------
(* Values *)

NumCells == 9

Cells == 0 .. (NumCells - 1)

None == "None"

Marks == {"X", "O"}

NoneVal == [type |-> "NoneType", val |-> 0]

PyInt(n) == [type |-> "int", val |-> n]

\* variant: the two diagonals declared in the other order
threes_diagonals_swapped ==
    << <<0, 1, 2>>, <<3, 4, 5>>, <<6, 7, 8>>,
       <<0, 3, 6>>, <<1, 4, 7>>, <<2, 5, 8>>,
       <<2, 4, 6>>, <<0, 4, 8>> >>

threes ==
    << <<0, 1, 2>>, <<3, 4, 5>>, <<6, 7, 8>>,
       <<0, 3, 6>>, <<1, 4, 7>>, <<2, 5, 8>>,
       <<0, 4, 8>>, <<2, 4, 6>> >>

AllBoards == [Cells -> Marks \cup {None}]

EmptyBoard == [c \in Cells |-> None]

\* "XO"[mark == "X"]
OtherMark(mark) == IF mark = "X" THEN "O" ELSE "X"

\* player.__init__ / monkey.__init__ (human and computer inherit player's)
NewPlayer(kind, mark) == [kind |-> kind, mark |-> mark, other_mark |-> OtherMark(mark)]

\* sum(b[cell] == mark for cell in three)
CountMark(b, three, mark) == Cardinality({j \in 1..3 : b[three[j]] = mark})

\* hypo_match = dc(match); hypo_match.board[i] = mark
Place(b, i, mark) == [b EXCEPT ![i] = mark]

-----------------------------------------------------------------------------
(* game.winner *)

\* variant: the diagonals are not looked at
winner_no_diagonals(b) ==
    IF \E i \in 1..6 : \A j \in 1..3 : b[threes[i][j]] = "X" THEN "X"
    ELSE IF \E i \in 1..6 : \A j \in 1..3 : b[threes[i][j]] = "O" THEN "O"
    ELSE ""

\* variant: for m in ["O", "X"]
winner_o_first(b) ==
    IF \E i \in 1..Len(threes) : \A j \in 1..3 : b[threes[i][j]] = "O" THEN "O"
    ELSE IF \E i \in 1..Len(threes) : \A j \in 1..3 : b[threes[i][j]] = "X" THEN "X"
    ELSE ""

winner(b) ==
    IF \E i \in 1..Len(threes) : \A j \in 1..3 : b[threes[i][j]] = "X" THEN "X"
    ELSE IF \E i \in 1..Len(threes) : \A j \in 1..3 : b[threes[i][j]] = "O" THEN "O"
    ELSE ""

(* game.check_for_wins: the first Line, in declaration order, holding mark  *)
(* twice and having an empty cell; its first empty cell.                    *)

RECURSIVE cfw_scan(_, _, _)
cfw_scan(b, mark, i) ==
    IF i > Len(threes) THEN NoneVal
    ELSE LET three == threes[i] IN
         IF CountMark(b, three, mark) = 2 /\ \E j \in 1..3 : b[three[j]] = None
         THEN PyInt(three[CHOOSE j \in 1..3 :
                             /\ b[three[j]] = None
                             /\ \A k \in 1..(j-1) : b[three[k]] # None])
         ELSE cfw_scan(b, mark, i + 1)

\* variant: if self.board[cell] != mark, in place of == None
RECURSIVE cfw_scan_not_mark(_, _, _)
cfw_scan_not_mark(b, mark, i) ==
    IF i > Len(threes) THEN NoneVal
    ELSE LET three == threes[i] IN
         IF CountMark(b, three, mark) = 2
         THEN PyInt(three[CHOOSE j \in 1..3 : b[three[j]] # mark])
         ELSE cfw_scan_not_mark(b, mark, i + 1)

check_for_wins_not_mark(b, mark) == cfw_scan_not_mark(b, mark, 1)

check_for_wins(b, mark) == cfw_scan(b, mark, 1)

(* game.check_for_twos: a dict, kept as its keys in insertion order and the *)
(* count of every cell (0 for a cell that is not a key).  The dict is        *)
(* determined by the cells the two loops visit, in order: a cell's count is  *)
(* the number of its visits (first visit: twos[cell] = 1, later visits:      *)
(* twos[cell] += 1) and the keys are ordered by first visit.                 *)

InDict(k, d) == k.type = "int" /\ k.val \in Cells /\ d.cnt[k.val] > 0

\* variant: the test "mark in diag" is missing
twos_line_any_mark(b, mark, three) == CountMark(b, three, None) >= 2

\* if mark in diag and diag.count(None) == 2
twos_line(b, mark, three) ==
    /\ \E j \in 1..3 : b[three[j]] = mark
    /\ CountMark(b, three, None) = 2

\* for cell in three: if not self.board[cell]
RECURSIVE twos_cells(_, _, _)
twos_cells(b, three, j) ==
    IF j > 3 THEN <<>>
    ELSE (IF b[three[j]] = None THEN <<three[j]>> ELSE <<>>) \o twos_cells(b, three, j + 1)

\* for three in game.threes: the cells visited, in order
RECURSIVE twos_visits(_, _, _)
twos_visits(b, mark, i) ==
    IF i > Len(threes) THEN <<>>
    ELSE (IF twos_line(b, mark, threes[i]) THEN twos_cells(b, threes[i], 1) ELSE <<>>)
         \o twos_visits(b, mark, i + 1)

\* variant: twos[cell] = 1 at every visit
twos_count_no_increment(visits, cell) ==
    IF \E n \in 1..Len(visits) : visits[n] = cell THEN 1 ELSE 0

\* twos[cell] = 1 at the first visit, twos[cell] += 1 at each later one
twos_count(visits, cell) == Cardinality({n \in 1..Len(visits) : visits[n] = cell})

\* the keys: each visited cell once, at the place of its first visit
RECURSIVE twos_keys(_, _)
twos_keys(visits, n) ==
    IF n > Len(visits) THEN <<>>
    ELSE (IF \E k \in 1..(n-1) : visits[k] = visits[n] THEN <<>> ELSE <<visits[n]>>)
         \o twos_keys(visits, n + 1)

\* (the visits are bound once, as the one element of a set)
check_for_twos(b, mark) ==
    CHOOSE twos \in {[keys |-> twos_keys(visits, 1),
                      cnt  |-> [c \in Cells |-> twos_count(visits, c)]] :
                         visits \in {twos_visits(b, mark, 1)}} : TRUE

(* game.check_move *)

\* variant: the test of an occupied cell is missing
check_move_range_only(b, move) ==
    IF move.type # "int" \/ move.val > 8 \/ move.val < 0 THEN FALSE
    ELSE TRUE

check_move(b, move) ==
    IF move.type # "int" \/ move.val > 8 \/ move.val < 0 THEN FALSE
    ELSE IF b[move.val] # None THEN FALSE
    ELSE TRUE

-----------------------------------------------------------------------------
(* player.move, used by monkey: random.choice over the empty cells.  On a   *)
(* full board the list is empty and random.choice raises IndexError, so      *)
(* there is no returned value.                                               *)

\* variant: random.choice(range(9))
player_move_any_cell(b) == {PyInt(i) : i \in Cells}

player_move(b) == {PyInt(i) : i \in {c \in Cells : b[c] = None}}

(* human.move: loops until the typed integer is in range(9) *)

human_move(b) == {PyInt(i) : i \in Cells}

(* computer.move *)

\* rules 3 and 5: the empty cells of the Lines that hold mark exactly twice
fork_cells(hb, mark) ==
    {c \in Cells : /\ hb[c] = None
                   /\ \E i \in 1..Len(threes) :
                         /\ CountMark(hb, threes[i], mark) = 2
                         /\ \E j \in 1..3 : threes[i][j] = c}

\* rules 3 and 5: for i in range(9), the first empty i after which playing
\* mark leaves exactly two such cells
RECURSIVE fork_scan(_, _, _)
fork_scan(b, mark, i) ==
    IF i > 8 THEN NoneVal
    ELSE IF b[i] = None /\ Cardinality(fork_cells(Place(b, i, mark), mark)) = 2
         THEN PyInt(i)
         ELSE fork_scan(b, mark, i + 1)

\* variant: the "continue" of line 139 is missing, every candidate is played
force_skip_never(b, mark, i) == FALSE

\* rule 4, lines 130-139: after playing i on a copy, is the implied win w a
\* double two of the opponent (the condition of "continue")?  The locals
\* hypo_match.board, w and hypo_twos are bound once, each as the one element
\* of a set.
force_skip(b, mark, i) ==
    \E hypo \in {Place(b, i, mark)} :
    \E w \in {check_for_wins(hypo, mark)} :
    \E hypo_twos \in {check_for_twos(hypo, OtherMark(mark))} :
        InDict(w, hypo_twos) /\ hypo_twos.cnt[w.val] > 1

\* rule 4: for i in self_twos, in insertion order
RECURSIVE force_scan(_, _, _, _)
force_scan(b, mark, keys, n) ==
    IF n > Len(keys) THEN NoneVal
    ELSE IF force_skip(b, mark, keys[n])
         THEN force_scan(b, mark, keys, n + 1)
         ELSE PyInt(keys[n])

\* rule 4: self_twos = match.check_for_twos(self.mark), then the loop
force_defense(b, mark) ==
    CHOOSE r \in {force_scan(b, mark, self_twos.keys, 1) :
                     self_twos \in {check_for_twos(b, mark)}} : TRUE

maps == [c \in {0, 2, 6, 8} |-> 8 - c]

corners == <<0, 2, 6, 8>>

\* variant: a side cell is missing from the list
sides_without_7 == <<1, 3, 5>>

sides == <<1, 3, 5, 7>>

\* rule 7: the first corner held by the opponent whose opposite corner is empty
RECURSIVE opposite_corner(_, _, _)
opposite_corner(b, mark, n) ==
    IF n > Len(corners) THEN NoneVal
    ELSE IF b[corners[n]] = OtherMark(mark) /\ b[maps[corners[n]]] = None
         THEN PyInt(maps[corners[n]])
         ELSE opposite_corner(b, mark, n + 1)

\* rules 8 and 9: [cell for cell in cs if board[cell] is None][0], if any
first_empty(b, cs) ==
    IF \E n \in 1..Len(cs) : b[cs[n]] = None
    THEN PyInt(cs[CHOOSE n \in 1..Len(cs) :
                     /\ b[cs[n]] = None
                     /\ \A k \in 1..(n-1) : b[cs[k]] # None])
    ELSE NoneVal

\* the rule that returns, and what it returns; rule 0 is falling off the end
computer_decide(b, mark) ==
    LET r1 == check_for_wins(b, mark)
        r2 == check_for_wins(b, OtherMark(mark))
        r3 == fork_scan(b, mark, 0)
        r4 == force_defense(b, mark)
        r5 == fork_scan(b, OtherMark(mark), 0)
        r7 == opposite_corner(b, mark, 1)
        r8 == first_empty(b, corners)
        r9 == first_empty(b, sides)
    IN  IF r1 # NoneVal THEN [rule |-> 1, ret |-> r1]
        ELSE IF r2 # NoneVal THEN [rule |-> 2, ret |-> r2]
        ELSE IF r3 # NoneVal THEN [rule |-> 3, ret |-> r3]
        ELSE IF r4 # NoneVal THEN [rule |-> 4, ret |-> r4]
        ELSE IF r5 # NoneVal THEN [rule |-> 5, ret |-> r5]
        ELSE IF b[4] = None THEN [rule |-> 6, ret |-> PyInt(4)]
        ELSE IF r7 # NoneVal THEN [rule |-> 7, ret |-> r7]
        ELSE IF r8 # NoneVal THEN [rule |-> 8, ret |-> r8]
        ELSE IF r9 # NoneVal THEN [rule |-> 9, ret |-> r9]
        ELSE [rule |-> 0, ret |-> NoneVal]

\* variant: rule 2 (block) is missing; the later rules that do not look ahead
\* decide instead
computer_move_no_block(b, mark) ==
    {IF computer_decide(b, mark).rule = 2
     THEN first_empty(b, <<4, 0, 2, 6, 8, 1, 3, 5, 7>>)
     ELSE computer_decide(b, mark).ret}

\* variant: rule 2 (block) is tried before rule 1 (win)
computer_move_block_first(b, mark) ==
    {IF check_for_wins(b, OtherMark(mark)) # NoneVal
     THEN check_for_wins(b, OtherMark(mark))
     ELSE computer_decide(b, mark).ret}

computer_move(b, mark) == {computer_decide(b, mark).ret}

(* What a call of move does to the game object it is given.  computer.move   *)
(* assigns cells only through hypo_match, which is dc(match); player.move    *)
(* and human.move only read match.board.                                     *)

\* the game object play() passes to move
Live == "match"

\* variant: hypo_match = match, the same object
dc_alias(obj) == obj

\* from copy import deepcopy as dc: a new object, distinct from the one copied
dc(obj) == "dc(" \o obj \o ")"

\* rules 3 and 5, lines 109-111 and 146-148: hypo_match.board[i] = mark for
\* every empty i the loop reaches; r is where the loop returned, if it did
fork_writes(b, mark, r) ==
    LET reached(i) == b[i] = None /\ (r = NoneVal \/ i <= r.val)
        cells == SelectSeq([n \in 1..9 |-> n - 1], reached)
    IN  [n \in 1..Len(cells) |-> [obj |-> dc(Live), cell |-> cells[n], val |-> mark]]

\* rule 4, lines 130-131: hypo_match.board[i] = self.mark for every key the
\* loop reaches
force_writes(b, mark, keys, r) ==
    LET last == IF r = NoneVal THEN Len(keys)
                ELSE CHOOSE n \in 1..Len(keys) : keys[n] = r.val
    IN  [n \in 1..last |-> [obj |-> dc(Live), cell |-> keys[n], val |-> mark]]

\* the assignments computer.move makes before it returns, in order (the
\* decision is bound once, as the one element of a set)
computer_writes(b, mark) ==
    CHOOSE ws \in
        {IF d.rule \in {1, 2} THEN <<>>
         ELSE fork_writes(b, mark, IF d.rule = 3 THEN d.ret ELSE NoneVal)
              \o (IF d.rule = 3 THEN <<>>
                  ELSE force_writes(b, mark, check_for_twos(b, mark).keys,
                                    IF d.rule = 4 THEN d.ret ELSE NoneVal)
                       \o (IF d.rule = 4 THEN <<>>
                           ELSE fork_writes(b, OtherMark(mark),
                                            IF d.rule = 5 THEN d.ret ELSE NoneVal))) :
            d \in {computer_decide(b, mark)}} : TRUE

\* match.board after the assignments ws: those made through the object Live
RECURSIVE apply_writes(_, _, _)
apply_writes(b, ws, n) ==
    IF n > Len(ws) THEN b
    ELSE apply_writes(IF ws[n].obj = Live THEN Place(b, ws[n].cell, ws[n].val) ELSE b,
                      ws, n + 1)

\* match.board after self.players[self.moves % 2].move(self)
board_after_move(p, b) ==
    IF p.kind = "computer"
    THEN CHOOSE after \in {apply_writes(b, ws, 1) : ws \in {computer_writes(b, p.mark)}} : TRUE
    ELSE b

\* self.players[self.moves % 2].move(self)
move_of(p, b) ==
    IF p.kind = "human" THEN human_move(b)
    ELSE IF p.kind = "computer" THEN computer_move(b, p.mark)
    ELSE player_move(b)

-----------------------------------------------------------------------------
(* game.__init__ *)

Classes == {"monkey", "computer"}

\* variant: the sort without reverse = True, "O" before "X"
sort_players_ascending(ps) == IF ps[1].mark = "X" /\ ps[2].mark = "O" THEN <<ps[2], ps[1]>> ELSE ps

\* self.players.sort(key = lambda x: x.mark, reverse = True): "X" before "O"
sort_players(ps) == IF ps[1].mark = "O" /\ ps[2].mark = "X" THEN <<ps[2], ps[1]>> ELSE ps

\* game(hmark, c1, c2) with hmark one of "X", "O"
InitHuman(hmark, c1) ==
    /\ cmatch = FALSE
    /\ vmark = hmark
    /\ players = sort_players(<<NewPlayer("human", hmark), NewPlayer(c1, OtherMark(hmark))>>)

\* game(None, c1, c2); v is the outcome of "XO"[random.randint(0, 1)]
InitAuto(v, c1, c2) ==
    /\ cmatch = TRUE
    /\ vmark = v
    /\ players = sort_players(<<NewPlayer(c1, OtherMark(v)), NewPlayer(c2, v)>>)

NoQuery == [op |-> "none", mark |-> None, ret |-> NoneVal]

InitGame ==
    /\ \/ \E hmark \in Marks, c1 \in Classes : InitHuman(hmark, c1)
       \/ \E v \in Marks, c1 \in Classes, c2 \in Classes : InitAuto(v, c1, c2)
    /\ board = EmptyBoard
    /\ moves = 9 - Cardinality({c \in Cells : board[c] = None})
    /\ pc = "loop"
    /\ m = NoneVal
    /\ play_winner = ""
    /\ report = <<>>
    /\ q = NoQuery

\* a default game() whose board has been set (moves follows line 225), on
\* which the board queries and the strategies are called directly
InitQuery ==
    /\ InitAuto("O", "monkey", "monkey")
    /\ board \in AllBoards
    /\ moves = 9 - Cardinality({c \in Cells : board[c] = None})
    /\ pc = "call"
    /\ m = NoneVal
    /\ play_winner = ""
    /\ report = <<>>
    /\ q = NoQuery

Init == InitGame \/ InitQuery

-----------------------------------------------------------------------------
(* game.play *)

Current == players[(moves % 2) + 1]

\* variant: the loop condition is "self.moves < 9" alone
RequestMove_ignores_winner ==
    /\ pc = "loop"
    /\ moves < 9
    /\ m' \in move_of(Current, board)
    /\ board' = board_after_move(Current, board)
    /\ pc' = "check"
    /\ UNCHANGED <<moves, players, cmatch, vmark, play_winner, report, q>>

\* line 249: m = self.players[self.moves % 2].move(self)
RequestMove ==
    /\ pc = "loop"
    /\ moves < 9 /\ play_winner = ""
    /\ m' \in move_of(Current, board)
    /\ board' = board_after_move(Current, board)
    /\ pc' = "check"
    /\ UNCHANGED <<moves, players, cmatch, vmark, play_winner, report, q>>

\* variant: the rejected move is counted
RejectMove_counted ==
    /\ pc = "check"
    /\ ~check_move(board, m)
    /\ pc' = "retry"
    /\ moves' = moves + 1
    /\ UNCHANGED <<board, players, cmatch, vmark, m, play_winner, report, q>>

\* line 251: check_move(m) is False, the body of the retry loop is entered
RejectMove ==
    /\ pc = "check"
    /\ ~check_move(board, m)
    /\ pc' = "retry"
    /\ UNCHANGED <<board, moves, players, cmatch, vmark, m, play_winner, report, q>>

\* line 252: m = self.players[self.moves % 2].move(self)
RetryMove ==
    /\ pc = "retry"
    /\ m' \in move_of(Current, board)
    /\ board' = board_after_move(Current, board)
    /\ pc' = "check"
    /\ UNCHANGED <<moves, players, cmatch, vmark, play_winner, report, q>>

\* lines 251, 253-255: check_move(m) is True; the move is applied
ApplyMove ==
    /\ pc = "check"
    /\ check_move(board, m)
    /\ board' = [board EXCEPT ![m.val] = <<"X", "O">>[(moves % 2) + 1]]
    /\ moves' = moves + 1
    /\ play_winner' = winner(board')
    /\ pc' = "loop"
    /\ UNCHANGED <<players, cmatch, vmark, m, report, q>>

\* lines 256-261: what play() prints after the loop (the board rendering
\* of print(self) is left out)
end_report(cm, mv, w) ==
    IF cm THEN <<>>
    ELSE <<"Alas, our game is at an end!">>
         \o (IF mv < 9 THEN <<"Congratulations, player " \o w \o "!!">> ELSE <<>>)
         \o (IF mv = 9 THEN <<"It is a draw.">> ELSE <<>>)

\* lines 248, 256-262: the loop condition fails; report and return winner
Finish ==
    /\ pc = "loop"
    /\ ~(moves < 9 /\ play_winner = "")
    /\ report' = end_report(cmatch, moves, play_winner)
    /\ pc' = "done"
    /\ UNCHANGED <<board, moves, players, cmatch, vmark, m, play_winner, q>>

-----------------------------------------------------------------------------
(* Direct calls of the board queries and of the strategies' move *)

Return(op, mark, ret) ==
    /\ pc = "call"
    /\ q' = [op |-> op, mark |-> mark, ret |-> ret]
    /\ pc' = "return"
    /\ UNCHANGED <<board, moves, players, cmatch, vmark, m, play_winner, report>>

CallWinner == Return("winner", None, winner(board))

CallCheckForWins == \E mark \in Marks : Return("check_for_wins", mark, check_for_wins(board, mark))

CallCheckForTwos == \E mark \in Marks : Return("check_for_twos", mark, check_for_twos(board, mark))

CallComputerMove ==
    \E mark \in Marks : \E r \in computer_move(board, mark) : Return("computer.move", mark, r)

CallMonkeyMove == \E r \in player_move(board) : Return("monkey.move", None, r)

\* check_move called with an integer in or next to range(9), with None or
\* with the string "4"; q.mark holds the argument
MoveInputs == {PyInt(i) : i \in -1..9} \cup {NoneVal, [type |-> "str", val |-> 4]}

CallCheckMove == \E move \in MoveInputs : Return("check_move", move, check_move(board, move))

NextPlay ==
    \/ RequestMove
    \/ RejectMove
    \/ RetryMove
    \/ ApplyMove
    \/ Finish

NextQuery ==
    \/ CallWinner
    \/ CallCheckForWins
    \/ CallCheckForTwos
    \/ CallComputerMove
    \/ CallMonkeyMove

Next == NextPlay \/ NextQuery

NextMove == NextPlay \/ CallCheckMove

\* a match played by play() on a freshly constructed game
Spec == InitGame /\ [][NextPlay]_vars

\* play() is a sequential loop: whenever a step is possible, one is taken
FairSpec == InitGame /\ [][NextPlay]_vars /\ WF_vars(NextPlay)

\* the board queries and the strategies called on an arbitrary board
QuerySpec == InitQuery /\ [][NextQuery]_vars

\* play() together with direct calls of check_move on an arbitrary board
MoveSpec == Init /\ [][NextMove]_vars

\* both together
AllSpec == Init /\ [][Next]_vars

-----------------------------------------------------------------------------
(* Vocabulary of the properties *)

Lines == {{0, 1, 2}, {3, 4, 5}, {6, 7, 8}, {0, 3, 6}, {1, 4, 7}, {2, 5, 8}, {0, 4, 8}, {2, 4, 6}}

HasLine(b, mk) == \E L \in Lines : \A c \in L : b[c] = mk

Occupied(b) == {c \in Cells : b[c] # None}

InPlay == pc \in {"loop", "check", "retry", "done"}

KindOf(mk) == IF players[1].mark = mk THEN players[1].kind ELSE players[2].kind

ComputerVsMonkey(cmk) == InPlay /\ KindOf(cmk) = "computer" /\ KindOf(OtherMark(cmk)) = "monkey"

BothMonkeys == InPlay /\ players[1].kind = "monkey" /\ players[2].kind = "monkey"

Returned(op) == pc = "return" /\ q.op = op

\* the Lines through c in which c is empty, exactly one other cell holds mk
\* and the third cell is empty
QualifyingLines(b, mk, c) ==
    {L \in Lines : /\ c \in L
                   /\ b[c] = None
                   /\ \E d \in L \ {c} : \E e \in L \ {c, d} : b[d] = mk /\ b[e] = None}

KeySet(d) == {d.keys[n] : n \in 1..Len(d.keys)}

\* [X,O,X, O,X,O, _,_,_]
Scenario2Board == [c \in Cells |-> IF c >= 6 THEN None ELSE IF c % 2 = 0 THEN "X" ELSE "O"]

-----------------------------------------------------------------------------
\* C1: in a match between a computer and a monkey, whichever mark the computer
\* holds and whatever the monkey plays, no reachable board has a Line fully
\* occupied by the monkey's mark, and play() never returns the monkey's mark.
C1_ComputerNeverLoses ==
    \A cmk \in Marks :
        ComputerVsMonkey(cmk) =>
            /\ ~HasLine(board, OtherMark(cmk))
            /\ play_winner # OtherMark(cmk)

\* a finished match in which the monkey moved first and filled five cells
C1_Witness ==
    /\ ComputerVsMonkey("O")
    /\ pc = "done"
    /\ moves = 9
    /\ play_winner = ""

\* C2: a match between two monkeys from the empty board terminates, with at
\* most 9 applied moves, ending with a winning mark or a draw (full board, no
\* winner), and no cell that holds a mark is ever written again.
C2_MonkeyMatchTerminates ==
    /\ BothMonkeys ~> (pc = "done")
    /\ [](BothMonkeys => moves <= 9 /\ Cardinality(Occupied(board)) = moves)
    /\ [](BothMonkeys /\ pc = "done" =>
             \/ play_winner \in Marks /\ HasLine(board, play_winner)
             \/ play_winner = "" /\ moves = 9)
    /\ [][BothMonkeys => \A c \in Cells : board[c] # None => board'[c] = board[c]]_vars

\* a monkey match that ran the full 9 moves and ended in a draw
C2_Witness == BothMonkeys /\ pc = "done" /\ moves = 9 /\ play_winner = "" /\ Occupied(board) = Cells

\* C3: on every board with an empty cell, for either mark, monkey.move and
\* computer.move return an integer in 0..8 whose cell is empty (never None);
\* inside play() check_move never rejects a monkey's or a computer's move, so
\* the retry loop is entered only for a human.
C3_StrategiesPickEmptyCells ==
    /\ (Returned("computer.move") \/ Returned("monkey.move")) /\ Occupied(board) # Cells =>
           /\ q.ret.type = "int"
           /\ q.ret.val \in Cells
           /\ board[q.ret.val] = None
    /\ pc = "check" /\ Current.kind \in {"monkey", "computer"} => check_move(board, m)
    /\ pc = "retry" => Current.kind = "human"

\* computer.move called on a board whose only empty cell is the last side
\* cell: the last of the nine rules returns it
C3_Witness ==
    /\ Returned("computer.move")
    /\ Occupied(board) = Cells \ {7}
    /\ q.ret = PyInt(7)

\* C4: when play() returns, it returns mark M exactly when the final board has
\* a Line fully occupied by M, and the no-winner value exactly when the final
\* board is full (move count 9) with no Line fully occupied by one mark.
C4_ResultMatchesBoard ==
    pc = "done" =>
        /\ \A mk \in Marks : play_winner = mk <=> HasLine(board, mk)
        /\ play_winner = "" <=>
               /\ moves = 9
               /\ Occupied(board) = Cells
               /\ ~HasLine(board, "X") /\ ~HasLine(board, "O")

\* play() has returned X for a Line completed by the 9th move
C4_Witness == pc = "done" /\ moves = 9 /\ play_winner = "X" /\ HasLine(board, "X")

Announces(mk) == \E n \in 1..Len(report) : report[n] = "Congratulations, player " \o mk \o "!!"

ReportsDraw == \E n \in 1..Len(report) : report[n] = "It is a draw."

\* C5: at the end of a match with a human, play() announces the winning mark
\* whenever there is a winner and reports a draw only when the move count is 9
\* with no winner (never for a final board with a winner, a win by the 9th
\* move included); a fully automated match reports nothing.
C5_EndOfMatchReport ==
    pc = "done" =>
        IF cmatch THEN report = <<>>
        ELSE /\ \A mk \in Marks : HasLine(board, mk) => Announces(mk)
             /\ ReportsDraw => moves = 9 /\ play_winner = "" /\ ~HasLine(board, "X") /\ ~HasLine(board, "O")

OnScenario2 == Returned("computer.move") /\ q.mark = "X" /\ board = Scenario2Board

\* C6 as stated: on [X,O,X, O,X,O, _,_,_] with self = X the computer's move is 6.
C6_Original == OnScenario2 => q.ret = PyInt(6)

\* C6: on the board [X,O,X, O,X,O, _,_,_] with self = X the computer's move is
\* the cell check_for_wins(X) finds scanning the Lines in declaration order:
\* cell 8, the empty cell of [0,4,8], which is declared before [2,4,6].
C6_Scenario2Returns8 ==
    OnScenario2 =>
        /\ q.ret = PyInt(8)
        /\ q.ret = check_for_wins(board, "X")
        /\ computer_decide(board, "X").rule = 1

C6_Witness == OnScenario2 /\ q.ret.type = "int"

PlacedWin == Place(board, q.ret.val, q.mark)

\* C7 as stated: on every board, if check_for_wins(mark) returns a cell c, c
\* is empty and the board with mark placed at c has winner() == mark.
C7_Original ==
    Returned("check_for_wins") /\ q.ret.type = "int" =>
        /\ board[q.ret.val] = None
        /\ winner(PlacedWin) = q.mark

\* C7: on every board, if check_for_wins(mark) returns a cell c, c is empty
\* and the board with mark placed at c has a Line fully occupied by mark;
\* winner() of that board is mark unless mark is O and X already holds a full
\* Line, in which case winner() is X.
C7_WinCellCompletesLine ==
    Returned("check_for_wins") /\ q.ret.type = "int" =>
        /\ q.ret.val \in Cells
        /\ board[q.ret.val] = None
        /\ HasLine(PlacedWin, q.mark)
        /\ winner(PlacedWin) = (IF q.mark = "O" /\ HasLine(board, "X") THEN "X" ELSE q.mark)

\* check_for_wins(O) has returned a cell on a board where X holds a full Line
C7_Witness ==
    /\ Returned("check_for_wins")
    /\ q.ret.type = "int"
    /\ q.mark = "O"
    /\ HasLine(board, "X")

FullLines(b) == {L \in Lines : \E mk \in Marks : \A c \in L : b[c] = mk}

\* C8: on a board with exactly one Line fully occupied by a single mark,
\* winner() returns that mark; with no such Line it returns the no-winner
\* value; when both X and O have a full Line it returns X.
C8_WinnerOfBoard ==
    Returned("winner") =>
        /\ \A mk \in Marks :
              Cardinality(FullLines(board)) = 1 /\ HasLine(board, mk) => q.ret = mk
        /\ FullLines(board) = {} => q.ret = ""
        /\ HasLine(board, "X") /\ HasLine(board, "O") => q.ret = "X"

\* winner() has been called on a board where both marks hold a full Line
C8_Witness == Returned("winner") /\ HasLine(board, "X") /\ HasLine(board, "O")

\* C9: check_for_twos(mark) maps each cell c to the number of Lines through c
\* in which c is empty, exactly one other cell holds mark and the third is
\* empty; the cells for which that number is 0 are not keys of the mapping.
C9_TwosMultiplicity ==
    Returned("check_for_twos") =>
        /\ \A c \in Cells : q.ret.cnt[c] = Cardinality(QualifyingLines(board, q.mark, c))
        /\ KeySet(q.ret) = {c \in Cells : QualifyingLines(board, q.mark, c) # {}}
        /\ Len(q.ret.keys) = Cardinality(KeySet(q.ret))

\* check_for_twos has returned a mapping with a cell of multiplicity 3
C9_Witness == Returned("check_for_twos") /\ \E c \in Cells : q.ret.cnt[c] = 3

\* C10: in every state of play() from a fresh game the move count equals the
\* number of occupied cells and lies in 0..9; a rejected move (check_move
\* False and the re-request that follows) changes neither board nor count.
C10_MoveCountIsOccupied ==
    /\ [](InPlay => moves = Cardinality(Occupied(board)) /\ moves \in 0..9)
    /\ [][(pc = "check" /\ ~check_move(board, m)) \/ pc = "retry" =>
              board' = board /\ moves' = moves]_vars

\* a move has been rejected with 8 cells occupied
C10_Witness == pc = "retry" /\ moves = 8 /\ Cardinality(Occupied(board)) = 8

\* the mark whose turn it is at move count n: X at an even count, O at an odd one
TurnMark(n) == IF n % 2 = 0 THEN "X" ELSE "O"

\* the participant whose own mark is mk
Holder(mk) == CHOOSE n \in 1..2 : players[n].mark = mk

CountOf(b, mk) == Cardinality({c \in Cells : b[c] = mk})

\* C11: turns alternate starting with X.  However the game was constructed,
\* a move is requested (first request or retry) from the participant whose own
\* mark is the mark of the turn, X at an even move count and O at an odd one;
\* the applied move writes that mark into one empty cell; so the number of X
\* minus the number of O is 0 at an even count and 1 at an odd one.
C11_TurnsAlternate ==
    /\ [](InPlay => /\ players[1].mark # players[2].mark
                    /\ CountOf(board, "X") - CountOf(board, "O") = moves % 2
                    /\ CountOf(board, "X") - CountOf(board, "O") \in {0, 1})
    /\ [][pc' = "check" => m' \in move_of(players[Holder(TurnMark(moves))], board)]_vars
    /\ [][board' # board =>
              /\ m \in move_of(players[Holder(TurnMark(moves))], board)
              /\ board[m.val] = None
              /\ board' = [board EXCEPT ![m.val] = TurnMark(moves)]
              /\ moves' = moves + 1]_vars

\* the human holds O and is asked for the second move of the match
C11_Witness ==
    /\ KindOf("O") = "human"
    /\ KindOf("X") = "monkey"
    /\ pc = "check"
    /\ moves = 1
    /\ CountOf(board, "X") = 1
    /\ board[m.val] # None

IsCellIndex(v) == v.type = "int" /\ v.val \in 0..8

\* C12: check_move(index) returns False exactly when index is not an integer
\* in 0..8 or the target cell is occupied, and True otherwise; when play()
\* rejects a proposed move, board and move count stay as they are and the next
\* move is requested from the same participant.
C12_CheckMoveAndRetry ==
    /\ [](Returned("check_move") =>
              /\ q.ret \in BOOLEAN
              /\ q.ret = FALSE <=> (~IsCellIndex(q.mark) \/ board[q.mark.val] # None))
    /\ [][pc = "check" /\ (~IsCellIndex(m) \/ board[m.val] # None) =>
              /\ pc' = "retry"
              /\ board' = board /\ moves' = moves
              /\ Current' = Current]_vars
    /\ [][pc = "retry" =>
              /\ pc' = "check"
              /\ board' = board /\ moves' = moves
              /\ Current' = Current
              /\ m' \in move_of(Current, board)]_vars

\* a human's move onto an occupied cell has been rejected
C12_Witness ==
    /\ pc = "retry"
    /\ Current.kind = "human"
    /\ moves = 3
    /\ IsCellIndex(m) /\ board[m.val] # None

\* C13: a call of a strategy's move (first request or retry; computer.move
\* with its look-ahead, monkey.move, human.move) leaves the cells of the live
\* board and the move count as they were; the live board changes only when
\* play() sets the one validated cell, and the count only with it.
C13_MoveLeavesMatchUnchanged ==
    /\ [][pc' = "check" => board' = board /\ moves' = moves]_vars
    /\ [][board' # board \/ moves' # moves =>
              /\ pc = "check" /\ pc' = "loop"
              /\ IsCellIndex(m) /\ board[m.val] = None
              /\ \A c \in Cells \ {m.val} : board'[c] = board[c]
              /\ board'[m.val] \in Marks
              /\ moves' = moves + 1]_vars

\* the computer has returned from move through rule 4, after the look-ahead
\* of rules 3 and 4 assigned cells of copies
C13_Witness ==
    /\ pc = "check"
    /\ Current.kind = "computer"
    /\ computer_decide(board, Current.mark).rule = 4
    /\ m = computer_decide(board, Current.mark).ret
    /\ Len(computer_writes(board, Current.mark)) > 2

OnEmptyBoardAsX == Returned("computer.move") /\ q.mark = "X" /\ board = EmptyBoard

\* C14: on the empty board with self = X the computer returns cell 4: none of
\* rules 1 to 5 (win, block, fork, force defense, block fork) applies and
\* rule 6 (center) is the first that does.
C14_EmptyBoardCenter ==
    OnEmptyBoardAsX =>
        /\ q.ret = PyInt(4)
        /\ check_for_wins(board, "X") = NoneVal
        /\ check_for_wins(board, "O") = NoneVal
        /\ fork_scan(board, "X", 0) = NoneVal
        /\ force_defense(board, "X") = NoneVal
        /\ fork_scan(board, "O", 0) = NoneVal
        /\ computer_decide(board, "X").rule = 6

C14_Witness == OnEmptyBoardAsX /\ q.ret.type = "int" /\ moves = 0

\* the empty cells that complete a Line whose two other cells hold mk
CompletingCells(b, mk) ==
    {c \in Cells : /\ b[c] = None
                   /\ \E L \in Lines : c \in L /\ \A d \in L \ {c} : b[d] = mk}

\* C16: rules 1 and 2 come before every other rule.  Whenever
\* check_for_wins(self) returns a cell, computer.move returns that cell, and
\* otherwise whenever check_for_wins(opponent) returns a cell, computer.move
\* returns that one; the cell completes a Line of self, resp. of the opponent.
\* In a match, if on the computer's turn a Line holds two of its marks and an
\* empty third cell, that very move is applied, completes a Line and makes
\* the computer the winner, and nothing but the end of play() follows.
C16_WinThenBlockFirst ==
    /\ [](Returned("computer.move") =>
              /\ check_for_wins(board, q.mark) # NoneVal =>
                     q.ret = check_for_wins(board, q.mark)
              /\ check_for_wins(board, q.mark) = NoneVal
                   /\ check_for_wins(board, OtherMark(q.mark)) # NoneVal =>
                     q.ret = check_for_wins(board, OtherMark(q.mark))
              /\ CompletingCells(board, q.mark) # {} =>
                     q.ret.type = "int" /\ q.ret.val \in CompletingCells(board, q.mark)
              /\ CompletingCells(board, q.mark) = {}
                   /\ CompletingCells(board, OtherMark(q.mark)) # {} =>
                     q.ret.type = "int"
                       /\ q.ret.val \in CompletingCells(board, OtherMark(q.mark)))
    /\ [][pc = "check" /\ Current.kind = "computer"
            /\ CompletingCells(board, Current.mark) # {} =>
              /\ pc' = "loop"
              /\ moves' = moves + 1
              /\ HasLine(board', Current.mark)
              /\ play_winner' = Current.mark]_vars
    /\ [][pc = "loop" /\ play_winner # "" => pc' = "done" /\ board' = board]_vars

\* in a match the computer could win or block, and has chosen the win
C16_Witness ==
    /\ pc = "check"
    /\ Current.kind = "computer"
    /\ CompletingCells(board, Current.mark) # {}
    /\ CompletingCells(board, Current.other_mark) # {}
    /\ m.val \in CompletingCells(board, Current.mark)

\* the Lines in which mk holds two cells and the third is empty
ThreatLines(b, mk) ==
    {L \in Lines : \E c \in L : b[c] = None /\ \A d \in L \ {c} : b[d] = mk}

\* rule 4's test of candidate i for self = mk: on the board with mk at i, the
\* implied win w is a cell through which the opponent has more than one
\* qualifying Line
ForkReply(b, mk, i) ==
    LET w == check_for_wins(Place(b, i, mk), mk)
    IN  /\ w.type = "int"
        /\ Cardinality(QualifyingLines(Place(b, i, mk), OtherMark(mk), w.val)) > 1

RuleOf(b, mk) == computer_decide(b, mk).rule

\* C17: whenever computer.move returns i through rule 4, i is a candidate
\* (a key of check_for_twos(self)), every candidate before it in insertion
\* order was skipped, and on the board with self at i the implied win
\* w = check_for_wins(self) is no cell of multiplicity above 1 in
\* check_for_twos(opponent); if the opponent replies at w it has at most one
\* Line with two of its marks and an empty third cell.  When rules 1 to 3 do
\* not apply and there is no candidate or every candidate is skipped, rule 4
\* does not return and the decision goes on to rule 5.
C17_ForceDefenseAvoidsFork ==
    Returned("computer.move") =>
        LET mk   == q.mark
            keys == check_for_twos(board, mk).keys
        IN  /\ RuleOf(board, mk) = 4 =>
                 /\ q.ret.type = "int"
                 /\ QualifyingLines(board, mk, q.ret.val) # {}
                 /\ \E n \in 1..Len(keys) :
                        /\ keys[n] = q.ret.val
                        /\ \A k \in 1..(n - 1) : ForkReply(board, mk, keys[k])
                 /\ ~ForkReply(board, mk, q.ret.val)
                 /\ LET hypo == Place(board, q.ret.val, mk)
                        w    == check_for_wins(hypo, mk)
                        T    == check_for_twos(hypo, OtherMark(mk))
                    IN  /\ ~(InDict(w, T) /\ T.cnt[w.val] > 1)
                        /\ w.type = "int" =>
                             Cardinality(ThreatLines(Place(hypo, w.val, OtherMark(mk)),
                                                     OtherMark(mk))) <= 1
            /\ RuleOf(board, mk) \notin {1, 2, 3} =>
                 (RuleOf(board, mk) # 4 <=>
                      \A c \in Cells : QualifyingLines(board, mk, c) # {} => ForkReply(board, mk, c))

\* rule 4 has returned a candidate after skipping an earlier one
C17_Witness ==
    /\ Returned("computer.move")
    /\ RuleOf(board, q.mark) = 4
    /\ check_for_twos(board, q.mark).keys[1] # q.ret.val

SomeLine(b) == HasLine(b, "X") \/ HasLine(b, "O")

\* C18: play() stops at the first completed Line.  In every state of play()
\* from the empty board at most one mark has a fully occupied Line; once a
\* Line is complete winner is that mark, no move is requested or applied any
\* more, and all that follows is the end of play() on the same board.
C18_StopsAtFirstLine ==
    /\ [](InPlay => ~(HasLine(board, "X") /\ HasLine(board, "O")))
    /\ [](InPlay /\ SomeLine(board) =>
              /\ pc \in {"loop", "done"}
              /\ play_winner \in Marks
              /\ HasLine(board, play_winner))
    /\ [][SomeLine(board) =>
              /\ pc = "loop" /\ pc' = "done"
              /\ board' = board /\ moves' = moves /\ m' = m]_vars

\* play() has ended on a board that X won with its third mark, four cells
\* still empty
C18_Witness ==
    /\ pc = "done"
    /\ moves = 5
    /\ HasLine(board, "X")
    /\ Cardinality(Occupied(board)) = 5

====
